---- MODULE Spec2Model ----
(***************************************************************************)
(* geosvc: the GeoIP database lifecycle of geoip_db.go (GeoIPDatabase with *)
(* SetupDatabase, GetRecord and Close) and the process skeleton of main.go *)
(* (startup refresh, update ticker goroutine, shutdown).                   *)
(***************************************************************************)
EXTENDS Integers, FiniteSets, Sequences, TLC

\* ---------------------------------------------------------------- bounds
\* Number of archive versions the remote ever publishes.
MaxVer == 2
\* Number of successful maxminddb.Open calls explored.
MaxHandles == 2

\* Concurrent GetRecord callers and the addresses they ask for.
Lookups == {"l1", "l2"}
Addrs == {"a1", "a2"}
\* HTTP requests in flight at a time.
Handlers == {"l1"}
\* cacheSize handed to NewGeoIPDatabase (arc.NewARC).
CacheSize == 1

NoHandle == 0
Absent == 0
Handles == 1..MaxHandles
Vers == 1..MaxVer

\* ------------------------------------------------------- checksum strings
\* A checksum text: the hex digits (identified by the archive version they
\* are the MD5 of; 0 is the empty string, -1 the digest of corrupted bytes),
\* whether the letters are upper case, whether whitespace surrounds them.
EmptySum == [hex |-> 0, upper |-> FALSE, ws |-> FALSE]

TrimSpace(s) == [s EXCEPT !.ws = FALSE]

ToLower(s) == [s EXCEPT !.upper = FALSE]

\* fmt.Sprintf("%x", h.Sum(nil)) over the bytes received.
HexDigest(arc) == [hex |-> IF arc.good THEN arc.ver ELSE 0 - 1, upper |-> FALSE, ws |-> FALSE]

\* The texts the .md5 URL may serve for the archive currently published.
RemoteSumTexts(v) == {[hex |-> v, upper |-> u, ws |-> w] : u \in BOOLEAN, w \in BOOLEAN}

\* The archive bodies a download may deliver: the published archive (with or
\* without the <edition>.mmdb entry) or bytes corrupted in transit.
RemoteArchives(v) ==
    {[ver |-> v, good |-> TRUE, entry |-> e] : e \in BOOLEAN}
        \cup {[ver |-> v, good |-> FALSE, entry |-> FALSE]}

LenZero(s) == s.hex = 0

\* line 109: the staleness probe normalises the remote text.
ProbeNormalize(text) == TrimSpace(text)

\* line 159: the first-run path normalises the remote text.
FirstRunNormalize(text) == ToLower(TrimSpace(text))

\* ------------------------------------------------------------ file paths
\* line 82
DatabasePath == "mmdb"

\* line 89
LastDownloadedChecksumPath == "mmdb.md5"

\* line 127
DatabaseArchivePath == "tar.gz"

\* A slip: the extracted payload is written straight over the live data file.
NewDatabasePathIsLive == "mmdb"

\* line 128
NewDatabasePath == "mmdb.new"

\* line 129
NewChecksumPath == "last-downloaded.md5.new"

Paths == {"mmdb", "mmdb.md5", "tar.gz", "mmdb.new", "last-downloaded.md5.new"}

\* File contents: a database payload of some version, a checksum text, an archive.
NoFile == [present |-> FALSE]
DataFile(v) == [present |-> TRUE, ver |-> v]
SumFile(sum) == [present |-> TRUE, sum |-> sum]
ArchiveFile == [present |-> TRUE]

\* ------------------------------------------------------------------ state
VARIABLES
    db,         \* g.db: the current handle, NoHandle when nil
    opened,     \* number of handles maxminddb.Open has returned
    hver,       \* hver[h]: data version handle h was opened on
    closed,     \* handles whose Close has been called
    cache,      \* g.cache: address -> handle whose decode produced the entry (Absent: no entry)
    mtx,        \* g.mtx: [w: a writer holds it, r: readers holding it, p: a writer waits in Lock]
    fs,         \* the data directory: path -> file
    remoteVer,  \* archive version the remote serves
    spc,        \* position of the SetupDatabase call in progress
    caller,     \* who called SetupDatabase
    lastSum,    \* lastDownloadedChecksum
    shouldDownload,
    digest,     \* downloadedDatabaseArchiveChecksum
    body,       \* the archive bytes this call wrote to <edition>.tar.gz
    netReqs,    \* http.Get calls issued by the SetupDatabase call
    ret,        \* return site of the last finished SetupDatabase call
    lk,         \* per GetRecord caller: [pc, ip: the address asked, h: handle decoded from]
    last,       \* what the GetRecord call that just returned gave: [kind, h] (until the next call)
    purged,     \* addresses whose entries the Purge just done dropped (until the next call)
    run,        \* SetupDatabase calls in succession that found no update: [n, cache at the first]
    overlapErr, \* a GetRecord overlapping the latest SetupDatabase call met a closed reader
    mpc,        \* main: where the main goroutine is
    upc,        \* main: where the updater goroutine is
    tickC,      \* updateTicker.C holds a tick
    tickerStopped,
    done,       \* values in the done channel (capacity 1)
    srv,        \* the HTTP server: "none", "listening", "failed", "closed"
    http        \* per handler: [pc, req: the request being served or last served, resp]

setupVars == <<spc, caller, lastSum, shouldDownload, digest, body, netReqs, ret>>
handleVars == <<db, opened, hver, closed>>
lookupVars == <<lk, last, http>>
mainVars == <<mpc, upc, tickC, tickerStopped, done, srv>>
vars == <<db, opened, hver, closed, cache, mtx, fs, remoteVer, spc, caller, lastSum,
          shouldDownload, digest, body, netReqs, ret, lk, last, purged, run, overlapErr,
          mpc, upc, tickC, tickerStopped, done, srv, http>>

NoBody == [ver |-> 0, good |-> FALSE, entry |-> FALSE]
EmptyCache == [a \in Addrs |-> Absent]
NoRun == [n |-> 0, cache |-> EmptyCache]

\* The live state a refresh must not disturb when it fails early.
Live ==
    [db |-> db, closed |-> closed, cache |-> cache,
     data |-> fs[DatabasePath], sidecar |-> fs[LastDownloadedChecksumPath]]

\* Return sites of SetupDatabase that return nil.
NilReturns == {"nil_nochange", "nil_copy", "nil_installed"}

IdleLookup == [pc |-> "idle", ip |-> "a1", h |-> NoHandle]
NoResult == [kind |-> "none", h |-> NoHandle]

\* ------------------------------------------------------ the HTTP handler
\* main.go lines 225-226.
StatusOK == "ok"
StatusError == "error"

\* What a request is, as far as the handler tells requests apart: its method,
\* whether its body decodes as JSON, and its ip field (an address, or a string
\* net.ParseIP rejects).
Requests == [method : {"POST", "GET"}, json : BOOLEAN, ip : Addrs \cup {"not-an-ip"}]

NoRequest == [method |-> "none", json |-> FALSE, ip |-> "none"]
NoResponse == [code |-> 0, status |-> "none"]
IdleHandler == [pc |-> "idle", req |-> NoRequest, resp |-> NoResponse]

\* main.go line 304: net.ParseIP(ipRequest.IP) != nil.
ParseIP(text) == text \in Addrs

\* main.go lines 288-307: the response to a request turned away before the
\* lookup (NoResponse when the request goes on to the lookup).
RejectResponse(req) ==
    IF req.method # "POST" THEN [code |-> 405, status |-> StatusError]
    ELSE IF ~req.json THEN [code |-> 400, status |-> StatusError]
    ELSE IF ~ParseIP(req.ip) THEN [code |-> 400, status |-> StatusError]
    ELSE NoResponse

\* A slip: the lookup's error is ignored.
LookupResponseAlwaysOK(kind) == [code |-> 200, status |-> StatusOK]

\* main.go lines 311-324: the response after the lookup returned.
LookupResponse(kind) ==
    IF kind \in {"hit", "decoded"}
    THEN [code |-> 200, status |-> StatusOK]
    ELSE [code |-> 500, status |-> StatusError]

\* NewGeoIPDatabase, on an empty data directory; the remote serves version 1.
Init ==
    /\ db = NoHandle
    /\ opened = 0
    /\ hver = [h \in Handles |-> 0]
    /\ closed = {}
    /\ cache = EmptyCache
    /\ mtx = [w |-> FALSE, r |-> {}, p |-> FALSE]
    /\ fs = [f \in Paths |-> NoFile]
    /\ remoteVer = 1
    /\ spc = "idle"
    /\ caller = "none"
    /\ lastSum = EmptySum
    /\ shouldDownload = FALSE
    /\ digest = EmptySum
    /\ body = NoBody
    /\ netReqs = 0
    /\ ret = "none"
    /\ lk = [l \in Lookups |-> IdleLookup]
    /\ last = NoResult
    /\ purged = {}
    /\ run = NoRun
    /\ overlapErr = FALSE
    /\ mpc = "start"
    /\ upc = "none"
    /\ tickC = FALSE
    /\ tickerStopped = FALSE
    /\ done = 0
    /\ srv = "none"
    /\ http = [l \in Handlers |-> IdleHandler]

\* ------------------------------------------------------------ sync.RWMutex
\* Lock: no writer and no reader holds the mutex.
CanLock(m) == ~m.w /\ m.r = {}

\* A slip: readers enter while a writer holds the mutex.
CanRLockIgnoresWriter(m) == TRUE

\* RLock: no writer holds the mutex and none waits for it.
CanRLock(m) == ~m.w /\ ~m.p

\* The process is alive: log.Fatalf has not run and main has not returned.
Running == mpc \notin {"fatal", "exited"}

\* --------------------------------------------------------- SetupDatabase
\* How many no-update calls in succession are told apart.
RunCap == 2

\* Every return of SetupDatabase runs the deferred g.mtx.Unlock(); its locals die.
Return(site) ==
    /\ spc' = "idle"
    /\ ret' = site
    /\ mtx' = [mtx EXCEPT !.w = FALSE]
    /\ lastSum' = EmptySum
    /\ shouldDownload' = FALSE
    /\ digest' = EmptySum
    /\ body' = NoBody
    /\ run' = IF site = "nil_nochange"
              THEN [run EXCEPT !.n = IF @ < RunCap THEN @ + 1 ELSE @]
              ELSE NoRun

\* The call goes on to the statement at label with these locals.
Continue(label, ls, sd, dg) ==
    /\ spc' = label
    /\ lastSum' = ls
    /\ shouldDownload' = sd
    /\ digest' = dg
    /\ UNCHANGED <<ret, mtx, run>>

\* As Continue, with the archive bytes untouched.
Goto(label, ls, sd, dg) ==
    /\ Continue(label, ls, sd, dg)
    /\ UNCHANGED body

\* line 78: the call is made and waits in g.mtx.Lock().
SetupCall(c) ==
    /\ spc = "idle"
    /\ ~mtx.p
    /\ spc' = "lock"
    /\ caller' = c
    /\ mtx' = [mtx EXCEPT !.p = TRUE]
    /\ overlapErr' = FALSE
    /\ last' = NoResult
    /\ purged' = {}
    /\ UNCHANGED <<handleVars, cache, fs, remoteVer, lastSum, shouldDownload, digest,
                   body, netReqs, ret, lk, http, run>>

\* lines 79-89: the exclusive lock is taken, the locals initialised.
SetupLock ==
    /\ Running
    /\ spc = "lock"
    /\ UNCHANGED mainVars
    /\ CanLock(mtx)
    /\ mtx' = [mtx EXCEPT !.w = TRUE, !.p = FALSE]
    /\ spc' = "check"
    /\ netReqs' = 0
    /\ run' = IF run.n = 0 THEN [n |-> 0, cache |-> cache] ELSE run
    /\ UNCHANGED <<handleVars, cache, fs, remoteVer, caller, lastSum, shouldDownload,
                   digest, body, ret, lookupVars, purged, overlapErr>>

\* os.Stat answers that the file is there.
fileExists(path) == fs[path].present

\* A slip: only the sidecar is looked for.
FilesMissingSidecarOnly == ~fs[LastDownloadedChecksumPath].present

\* line 90: !fileExists(databasePath) || !fileExists(lastDownloadedChecksumPath).
FilesMissing == ~fileExists(DatabasePath) \/ ~fileExists(LastDownloadedChecksumPath)

\* lines 90-102: fileExists on both files; os.ReadFile of the sidecar.
SetupCheck ==
    /\ Running
    /\ spc = "check"
    /\ UNCHANGED mainVars
    /\ \/ /\ FilesMissing
          /\ Goto("download", lastSum, TRUE, digest)
       \/ /\ ~FilesMissing
          /\ Goto("probe", fs[LastDownloadedChecksumPath].sum, shouldDownload, digest)
       \/ /\ ~FilesMissing
          /\ Return("err_io")
    /\ UNCHANGED <<handleVars, cache, fs, remoteVer, caller, netReqs, lookupVars,
                   purged, overlapErr>>

\* A slip: the no-update branch never returns early.
NoUpdateNeverReturns(d) == FALSE

\* line 117: with no update found, return only if a database is already set up.
NoUpdateReturns(d) == d # NoHandle

\* lines 104-120: the staleness probe.
SetupProbe ==
    /\ Running
    /\ spc = "probe"
    /\ UNCHANGED mainVars
    /\ netReqs' = netReqs + 1
    /\ \/ Return("err_io")
       \/ \E text \in RemoteSumTexts(remoteVer) :
            LET normalizedChecksum == ProbeNormalize(text) IN
            IF normalizedChecksum # lastSum
            THEN Goto("download", normalizedChecksum, TRUE, digest)
            ELSE IF NoUpdateReturns(db)
                 THEN Return("nil_nochange")
                 ELSE Goto("close", lastSum, shouldDownload, digest)
    /\ UNCHANGED <<handleVars, cache, fs, remoteVer, caller, lookupVars, purged,
                   overlapErr>>

\* line 145: what SetupDatabase returns when io.Copy of the archive body fails.
CopyFailReturn == "nil_copy"

\* lines 131-150: download the archive to <edition>.tar.gz, hashing it.
SetupDownload ==
    /\ Running
    /\ spc = "download"
    /\ UNCHANGED mainVars
    /\ netReqs' = netReqs + 1
    /\ \/ /\ Return("err_io")                       \* http.Get or os.Create fails
          /\ UNCHANGED fs
       \/ /\ fs' = [fs EXCEPT ![DatabaseArchivePath] = ArchiveFile]
          /\ Return(CopyFailReturn)                 \* io.Copy fails midway
       \/ \E arc \in RemoteArchives(remoteVer) :
            /\ fs' = [fs EXCEPT ![DatabaseArchivePath] = ArchiveFile]
            /\ body' = arc
            /\ Continue("fetchsum", lastSum, shouldDownload, HexDigest(arc))
    /\ UNCHANGED <<handleVars, cache, remoteVer, caller, lookupVars, purged, overlapErr>>

\* lines 152-161: fetch the checksum if the probe has not.
SetupFetchSum ==
    /\ Running
    /\ spc = "fetchsum"
    /\ UNCHANGED mainVars
    /\ IF LenZero(lastSum)
       THEN /\ netReqs' = netReqs + 1
            /\ \/ Return("err_io")
               \/ \E text \in RemoteSumTexts(remoteVer) :
                    Goto("compare", FirstRunNormalize(text), shouldDownload, digest)
       ELSE /\ UNCHANGED netReqs
            /\ Goto("compare", lastSum, shouldDownload, digest)
    /\ UNCHANGED <<handleVars, cache, fs, remoteVer, caller, lookupVars, purged,
                   overlapErr>>

\* A slip: the comparison lets every archive through.
ChecksumMatchesAlways(computed, expected) == TRUE

\* line 164: the checksum comparison.
ChecksumMatches(computed, expected) == computed = expected

\* lines 163-169.
SetupCompare ==
    /\ Running
    /\ spc = "compare"
    /\ UNCHANGED mainVars
    /\ IF ChecksumMatches(digest, lastSum)
       THEN Goto("extract", lastSum, shouldDownload, digest)
       ELSE Return("err_mismatch")
    /\ UNCHANGED <<handleVars, cache, fs, remoteVer, caller, netReqs, lookupVars,
                   purged, overlapErr>>

\* lines 171-221: unpack the archive, copy the entry to <edition>.mmdb.new,
\* remove the archive (a failed removal is only logged).
SetupExtract ==
    /\ Running
    /\ spc = "extract"
    /\ UNCHANGED mainVars
    /\ \/ /\ Return("err_io")                       \* os.Open, gzip, tar or os.Create fails
          /\ UNCHANGED fs
       \/ /\ ~body.entry
          /\ Return("err_notfound")
          /\ UNCHANGED fs
       \/ /\ body.entry                             \* io.Copy fails: a partial file stays
          /\ fs' = [fs EXCEPT ![NewDatabasePath] = DataFile(body.ver)]
          /\ Return("err_io")
       \/ /\ body.entry
          /\ \E removed \in BOOLEAN :
               fs' = [fs EXCEPT ![NewDatabasePath] = DataFile(body.ver),
                                ![DatabaseArchivePath] = IF removed THEN NoFile ELSE @]
          /\ Goto("savesum", lastSum, shouldDownload, digest)
    /\ UNCHANGED <<handleVars, cache, remoteVer, caller, netReqs, lookupVars, purged,
                   overlapErr>>

\* lines 223-226: os.WriteFile of the new sidecar; a failure is only logged.
SetupSaveSum ==
    /\ Running
    /\ spc = "savesum"
    /\ UNCHANGED mainVars
    /\ \/ fs' = [fs EXCEPT ![NewChecksumPath] = SumFile(lastSum)]
       \/ UNCHANGED fs
    /\ Goto("rename1", lastSum, shouldDownload, digest)
    /\ UNCHANGED <<handleVars, cache, remoteVer, caller, netReqs, lookupVars, purged,
                   overlapErr>>

\* os.Rename(from, to) when it succeeds.
Rename(f, from, to) == IF from = to THEN f ELSE [f EXCEPT ![to] = f[from], ![from] = NoFile]

\* lines 228-231: os.Rename(newDatabasePath, databasePath).
SetupRename1 ==
    /\ Running
    /\ spc = "rename1"
    /\ UNCHANGED mainVars
    /\ \/ /\ Return("err_io")
          /\ UNCHANGED fs
       \/ /\ fileExists(NewDatabasePath)
          /\ fs' = Rename(fs, NewDatabasePath, DatabasePath)
          /\ Goto("rename2", lastSum, shouldDownload, digest)
    /\ UNCHANGED <<handleVars, cache, remoteVer, caller, netReqs, lookupVars, purged,
                   overlapErr>>

\* lines 232-234: os.Rename(newChecksumPath, lastDownloadedChecksumPath).
SetupRename2 ==
    /\ Running
    /\ spc = "rename2"
    /\ UNCHANGED mainVars
    /\ \/ /\ Return("err_io")
          /\ UNCHANGED fs
       \/ /\ fileExists(NewChecksumPath)
          /\ fs' = Rename(fs, NewChecksumPath, LastDownloadedChecksumPath)
          /\ Goto("close", lastSum, shouldDownload, digest)
    /\ UNCHANGED <<handleVars, cache, remoteVer, caller, netReqs, lookupVars, purged,
                   overlapErr>>

\* A slip: the previous database is not closed before the new one is opened.
ClosePreviousSkipped(cl, d) == cl

\* lines 237-241: the handles closed once the previous database has been closed.
ClosePrevious(cl, d) == IF d # NoHandle THEN cl \cup {d} ELSE cl

SetupClose ==
    /\ Running
    /\ spc = "close"
    /\ UNCHANGED mainVars
    /\ closed' = ClosePrevious(closed, db)
    /\ Goto("open", lastSum, shouldDownload, digest)
    /\ UNCHANGED <<db, opened, hver, cache, fs, remoteVer, caller, netReqs, lookupVars,
                   purged, overlapErr>>

\* A slip: the install forgets to purge.
PurgeKeepsEntries(c) == c

\* line 250: g.cache.Purge().
Purge(c) == EmptyCache

\* lines 243-253: maxminddb.Open(databasePath); install and purge on success.
SetupOpen ==
    /\ Running
    /\ spc = "open"
    /\ UNCHANGED mainVars
    /\ \/ /\ Return("err_open")
          /\ UNCHANGED <<db, opened, hver, cache, purged>>
       \/ /\ fileExists(DatabasePath)
          /\ opened < MaxHandles
          /\ opened' = opened + 1
          /\ hver' = [hver EXCEPT ![opened + 1] = fs[DatabasePath].ver]
          /\ db' = opened + 1
          /\ cache' = Purge(cache)
          /\ purged' = {a \in Addrs : cache[a] # Absent}
          /\ Return("nil_installed")
    /\ UNCHANGED <<closed, fs, remoteVer, caller, netReqs, lookupVars, overlapErr>>

SetupStep ==
    \/ SetupLock
    \/ SetupCheck
    \/ SetupProbe
    \/ SetupDownload
    \/ SetupFetchSum
    \/ SetupCompare
    \/ SetupExtract
    \/ SetupSaveSum
    \/ SetupRename1
    \/ SetupRename2
    \/ SetupClose
    \/ SetupOpen

\* ------------------------------------------------------------- the remote
\* The remote publishes the next archive version.
RemotePublish ==
    /\ Running
    /\ remoteVer < MaxVer
    /\ UNCHANGED mainVars
    /\ remoteVer' = remoteVer + 1
    /\ UNCHANGED <<handleVars, cache, mtx, fs, setupVars, lookupVars, purged, run,
                   overlapErr>>

\* ------------------------------------------------------ the data directory
\* Between refreshes the data file or the sidecar is removed from the data
\* directory by something other than the service (lines 90, 290-299: os.Stat
\* then answers not-exist).
FileRemoved ==
    /\ Running
    /\ spc = "idle"
    /\ \E f \in {DatabasePath, LastDownloadedChecksumPath} :
          /\ fileExists(f)
          /\ fs' = [fs EXCEPT ![f] = NoFile]
    /\ UNCHANGED <<handleVars, cache, mtx, remoteVer, setupVars, lookupVars, purged, run,
                   overlapErr, mainVars>>

\* -------------------------------------------------------------- GetRecord
\* A slip: the decoded record never reaches the cache.
CacheAddDropsRecord(c, a, h) == {c}

\* The ARC cache after Add(a, h): a full cache drops one other entry (which one
\* is the replacement policy's choice).
CacheAdd(c, a, h) ==
    IF c[a] # Absent \/ Cardinality({x \in Addrs : c[x] # Absent}) < CacheSize
    THEN {[c EXCEPT ![a] = h]}
    ELSE {[c EXCEPT ![a] = h, ![v] = Absent] : v \in {x \in Addrs \ {a} : c[x] # Absent}}

\* main.go lines 311-324: when the caller is the HTTP handler it writes its
\* response as soon as the lookup has returned.
AfterLookup(l, kind) ==
    IF l \in Handlers /\ http[l].pc = "lookup"
    THEN [http EXCEPT ![l] = [pc |-> "idle", req |-> @.req, resp |-> LookupResponse(kind)]]
    ELSE http

\* A return of GetRecord: the deferred g.mtx.RUnlock(), and what the caller gets.
GetRecordReturn(l, kind, h) ==
    /\ http' = AfterLookup(l, kind)
    /\ mtx' = [mtx EXCEPT !.r = @ \ {l}]
    /\ lk' = [lk EXCEPT ![l] = IdleLookup]
    /\ last' = [kind |-> kind, h |-> h]
    /\ overlapErr' = (overlapErr \/ (kind = "closederr" /\ spc # "idle"))

\* line 257: take the shared lock.
GetRecordRLock(l, ip) ==
    /\ lk[l].pc = "idle"
    /\ CanRLock(mtx)
    /\ mtx' = [mtx EXCEPT !.r = @ \cup {l}]
    /\ lk' = [lk EXCEPT ![l] = [pc |-> "check", ip |-> ip, h |-> NoHandle]]
    /\ run' = NoRun
    /\ last' = NoResult
    /\ purged' = {}
    /\ UNCHANGED <<handleVars, cache, fs, remoteVer, setupVars, overlapErr>>

\* line 264: g.cache.Get(ip).
CacheGet(c, ip) == c[ip]

\* A slip: the nil check is skipped.
NotOpenNeverTrue(d) == FALSE

\* line 260: g.db == nil.
NotOpen(d) == d = NoHandle

\* lines 260-266: the nil check and the cache lookup.
GetRecordCheck(l) ==
    /\ Running
    /\ lk[l].pc = "check"
    /\ UNCHANGED mainVars
    /\ IF NotOpen(db)
       THEN GetRecordReturn(l, "notopen", NoHandle)
       ELSE IF CacheGet(cache, lk[l].ip) # Absent
       THEN GetRecordReturn(l, "hit", CacheGet(cache, lk[l].ip))
       ELSE /\ lk' = [lk EXCEPT ![l].pc = "decode"]
            /\ UNCHANGED <<mtx, last, http, overlapErr>>
    /\ UNCHANGED <<handleVars, cache, fs, remoteVer, setupVars, purged, run>>

\* lines 268-272: g.db.Lookup(ip).Decode(&record); a closed reader answers
\* with an error.
GetRecordDecode(l) ==
    /\ Running
    /\ lk[l].pc = "decode"
    /\ UNCHANGED mainVars
    /\ IF db \in closed
       THEN GetRecordReturn(l, "closederr", db)
       ELSE \/ GetRecordReturn(l, "decerr", db)
            \/ /\ lk' = [lk EXCEPT ![l].pc = "add", ![l].h = db]
               /\ UNCHANGED <<mtx, last, http, overlapErr>>
    /\ UNCHANGED <<handleVars, cache, fs, remoteVer, setupVars, purged, run>>

\* lines 274-275: g.cache.Add(ip, &record) and the return.
GetRecordAdd(l) ==
    /\ Running
    /\ lk[l].pc = "add"
    /\ UNCHANGED mainVars
    /\ cache' \in CacheAdd(cache, lk[l].ip, lk[l].h)
    /\ GetRecordReturn(l, "decoded", lk[l].h)
    /\ UNCHANGED <<handleVars, fs, remoteVer, setupVars, purged, run>>

\* A caller of the package starts GetRecord.
ApiGetRecord(l) ==
    /\ \E ip \in Addrs : GetRecordRLock(l, ip)
    /\ UNCHANGED <<mainVars, http>>

GetRecordStep(l) ==
    \/ GetRecordCheck(l)
    \/ GetRecordDecode(l)
    \/ GetRecordAdd(l)

\* ------------------------------------------------------------------ Close
\* lines 278-288: under the exclusive lock, close the reader and forget it; when
\* the reader's Close reports an error the field keeps pointing at it.
Close ==
    /\ CanLock(mtx)
    /\ IF db # NoHandle
       THEN /\ closed' = closed \cup {db}
            /\ \/ db' = NoHandle
               \/ db' = db
       ELSE UNCHANGED <<db, closed>>
    /\ run' = NoRun
    /\ last' = NoResult
    /\ purged' = {}
    /\ UNCHANGED <<opened, hver, cache, mtx, fs, remoteVer, setupVars, lk, http,
                   overlapErr>>

\* ------------------------------------------------ the package as a library
\* A caller of the package starts SetupDatabase.
ApiSetupDatabase ==
    /\ SetupCall("api")
    /\ UNCHANGED mainVars

\* A caller of the package calls Close.
ApiClose ==
    /\ Close
    /\ UNCHANGED mainVars

\* Any caller may start SetupDatabase, GetRecord or Close at any time.
Next ==
    \/ ApiSetupDatabase
    \/ SetupStep
    \/ \E l \in Lookups : ApiGetRecord(l)
    \/ \E l \in Lookups : GetRecordStep(l)
    \/ ApiClose
    \/ RemotePublish

Spec == Init /\ [][Next]_vars

\* ------------------------------------- refreshes over a changing directory
\* SetupDatabase called again and again while the remote publishes and the
\* live files may disappear between calls.
DirNext ==
    \/ ApiSetupDatabase
    \/ SetupStep
    \/ RemotePublish
    \/ FileRemoved

DirSpec == Init /\ [][DirNext]_vars

\* ------------------------------------------------------------------- main
\* main.go lines 264-267: the startup refresh is called.
MainStartup ==
    /\ mpc = "start"
    /\ SetupCall("main")
    /\ mpc' = "setup"
    /\ UNCHANGED <<upc, tickC, tickerStopped, done, srv>>

\* main.go line 265: err != nil.
StartupFailed(site) == site \notin NilReturns

\* main.go lines 265-339: log.Fatalf when the startup refresh returned an error;
\* otherwise the ticker is created, the updater goroutine and the HTTP server
\* are started.
MainAfterSetup ==
    /\ mpc = "setup"
    /\ spc = "idle"
    /\ IF StartupFailed(ret)
       THEN /\ mpc' = "fatal"
            /\ UNCHANGED <<upc, srv>>
       ELSE /\ mpc' = "serving"
            /\ upc' = "select"
            /\ srv' = "listening"
    /\ UNCHANGED <<handleVars, cache, mtx, fs, remoteVer, setupVars, lookupVars, purged,
                   run, overlapErr, tickC, tickerStopped, done>>

\* main.go lines 334-339: ListenAndServe fails; the goroutine sends on done.
ListenFails ==
    /\ Running
    /\ srv = "listening"
    /\ mpc = "serving"
    /\ srv' = "failed"
    /\ done' = done + 1
    /\ UNCHANGED <<handleVars, cache, mtx, fs, remoteVer, setupVars, lookupVars, purged,
                   run, overlapErr, mpc, upc, tickC, tickerStopped>>

\* main.go line 271: the ticker puts a tick in its channel.
Tick ==
    /\ Running
    /\ upc # "none"
    /\ ~tickerStopped
    /\ ~tickC
    /\ tickC' = TRUE
    /\ UNCHANGED <<handleVars, cache, mtx, fs, remoteVer, setupVars, lookupVars, purged,
                   run, overlapErr, mpc, upc, tickerStopped, done, srv>>

\* main.go lines 275-276: the updater receives from done; break leaves the select.
UpdaterRecvDone ==
    /\ Running
    /\ upc = "select"
    /\ done > 0
    /\ done' = done - 1
    /\ UNCHANGED <<handleVars, cache, mtx, fs, remoteVer, setupVars, lookupVars, purged,
                   run, overlapErr, mpc, upc, tickC, tickerStopped, srv>>

\* main.go lines 277-279: the updater receives a tick and calls SetupDatabase.
UpdaterRecvTick ==
    /\ Running
    /\ upc = "select"
    /\ tickC
    /\ tickC' = FALSE
    /\ SetupCall("updater")
    /\ upc' = "setup"
    /\ UNCHANGED <<mpc, tickerStopped, done, srv>>

\* main.go lines 279-282: the call returned; an error is logged; next iteration.
UpdaterAfterSetup ==
    /\ Running
    /\ upc = "setup"
    /\ spc = "idle"
    /\ upc' = "select"
    /\ UNCHANGED <<handleVars, cache, mtx, fs, remoteVer, setupVars, lookupVars, purged,
                   run, overlapErr, mpc, tickC, tickerStopped, done, srv>>

\* main.go lines 342-347: main receives the interrupt signal or a value from done.
MainWake ==
    /\ mpc = "serving"
    /\ \/ UNCHANGED done
       \/ /\ done > 0
          /\ done' = done - 1
    /\ mpc' = "stopping"
    /\ UNCHANGED <<handleVars, cache, mtx, fs, remoteVer, setupVars, lookupVars, purged,
                   run, overlapErr, upc, tickC, tickerStopped, srv>>

\* main.go line 349: updateTicker.Stop().
MainStopTicker ==
    /\ mpc = "stopping"
    /\ tickerStopped' = TRUE
    /\ mpc' = "shutdown"
    /\ UNCHANGED <<handleVars, cache, mtx, fs, remoteVer, setupVars, lookupVars, purged,
                   run, overlapErr, upc, tickC, done, srv>>

\* main.go lines 352-357: srv.Shutdown under a 5 second context.
MainShutdown ==
    /\ mpc = "shutdown"
    /\ srv' = "closed"
    /\ mpc' = "closing"
    /\ UNCHANGED <<handleVars, cache, mtx, fs, remoteVer, setupVars, lookupVars, purged,
                   run, overlapErr, upc, tickC, tickerStopped, done>>

\* main.go line 268: the deferred db.Close() runs as main returns; the process ends.
MainClose ==
    /\ mpc = "closing"
    /\ Close
    /\ mpc' = "exited"
    /\ UNCHANGED <<upc, tickC, tickerStopped, done, srv>>

\* main.go lines 286-311: a request that passes the method check, the JSON
\* decoding and net.ParseIP reaches the handler while the server listens, and
\* the handler asks the database for the address (the response follows the
\* lookup's return, see AfterLookup).
Handler(l) ==
    /\ Running
    /\ srv = "listening"
    /\ http[l].pc = "idle"
    /\ \E req \in Requests :
          /\ RejectResponse(req) = NoResponse
          /\ GetRecordRLock(l, req.ip)
          /\ http' = [http EXCEPT ![l] = [pc |-> "lookup", req |-> req, resp |-> NoResponse]]
    /\ UNCHANGED mainVars

\* main.go lines 286-307: a request the handler turns away: wrong method, a
\* body that does not decode, an ip that does not parse.
HandlerReject(l) ==
    /\ Running
    /\ srv = "listening"
    /\ http[l].pc = "idle"
    /\ \E req \in Requests :
          /\ RejectResponse(req) # NoResponse
          /\ http' = [http EXCEPT ![l] = [pc |-> "idle", req |-> req,
                                           resp |-> RejectResponse(req)]]
    /\ UNCHANGED <<handleVars, cache, mtx, fs, remoteVer, setupVars, lk, last, purged, run,
                   overlapErr, mainVars>>

\* The server once started, with requests of every kind arriving; no tick and
\* no signal yet. The startup refresh runs on an empty data directory, so it
\* never probes.
HttpNext ==
    \/ MainStartup
    \/ MainAfterSetup
    \/ SetupLock
    \/ SetupCheck
    \/ SetupDownload
    \/ SetupFetchSum
    \/ SetupCompare
    \/ SetupExtract
    \/ SetupSaveSum
    \/ SetupRename1
    \/ SetupRename2
    \/ SetupClose
    \/ SetupOpen
    \/ \E l \in Handlers : Handler(l)
    \/ \E l \in Handlers : HandlerReject(l)
    \/ \E l \in Handlers : GetRecordStep(l)

HttpSpec == Init /\ [][HttpNext]_vars

MainNext ==
    \/ MainStartup
    \/ MainAfterSetup
    \/ ListenFails
    \/ Tick
    \/ UpdaterRecvDone
    \/ UpdaterRecvTick
    \/ UpdaterAfterSetup
    \/ MainWake
    \/ MainStopTicker
    \/ MainShutdown
    \/ MainClose
    \/ SetupStep
    \/ \E l \in Handlers : Handler(l)
    \/ \E l \in Handlers : GetRecordStep(l)
    \/ RemotePublish

MainSpec == Init /\ [][MainNext]_vars

\* ------------------------------------------------- the shutdown sequence
\* The process with no request arriving and the remote publishing nothing:
\* startup, the ticker and the updater goroutine, the shutdown sequence.
ShutdownNext ==
    \/ MainStartup
    \/ MainAfterSetup
    \/ ListenFails
    \/ Tick
    \/ UpdaterRecvDone
    \/ UpdaterRecvTick
    \/ UpdaterAfterSetup
    \/ MainWake
    \/ MainStopTicker
    \/ MainShutdown
    \/ MainClose
    \/ SetupStep

\* The statements of SetupDatabase that wait for nothing but the processor and
\* the local disk (the http.Get calls and body reads may never return).
LocalSetupStep ==
    \/ SetupLock
    \/ SetupCheck
    \/ (~LenZero(lastSum) /\ SetupFetchSum)
    \/ SetupCompare
    \/ SetupExtract
    \/ SetupSaveSum
    \/ SetupRename1
    \/ SetupRename2
    \/ SetupClose
    \/ SetupOpen

\* The statements of the main goroutine that wait for no outside event
\* (srv.Shutdown is bounded by its 5 second context).
MainStep ==
    \/ MainStartup
    \/ MainAfterSetup
    \/ MainStopTicker
    \/ MainShutdown

UpdaterStep ==
    \/ UpdaterRecvDone
    \/ UpdaterRecvTick
    \/ UpdaterAfterSetup

\* The Go scheduler runs every goroutine that can run, and a goroutine waiting
\* in Lock gets the mutex once it is free.
ShutdownFairness ==
    /\ WF_vars(LocalSetupStep)
    /\ WF_vars(MainStep)
    /\ WF_vars(UpdaterStep)
    /\ SF_vars(MainClose)

ShutdownSpec == Init /\ [][ShutdownNext]_vars /\ ShutdownFairness

\* The shutdown sequence when, besides, every request SetupDatabase sends to
\* the remote is answered or fails in the end, so that no call waits for the
\* network for ever.
SchedulerFairness ==
    /\ ShutdownFairness
    /\ WF_vars(SetupStep)

SchedulerSpec == Init /\ [][ShutdownNext]_vars /\ SchedulerFairness

\* ================================================================= claims

\* C1: under any interleaving of GetRecord, SetupDatabase and Close, no
\* GetRecord call is about to invoke the decoder (g.db.Lookup) on a handle
\* that has already been closed.
C1_NoDecodeOnClosedHandle ==
    \A l \in Lookups : lk[l].pc = "decode" => db \notin closed

\* C2: when SetupDatabase runs with a handle installed and maxminddb.Open of
\* the new file fails, it returns the error and the previously installed
\* handle is still the current one and still open.
C2_FailedOpenKeepsPreviousHandle ==
    [][(spc = "open" /\ spc' = "idle" /\ ret' = "err_open" /\ db # NoHandle)
          => (db' = db /\ db' \notin closed')]_vars

\* C3: no step of SetupDatabase up to and including a failed checksum
\* comparison or a missing archive entry changes the live data file, the live
\* sidecar, the installed handle (or whether it is open) or the cache; so a
\* call that fails there leaves them as they were and a GetRecord that
\* follows is answered from the old data.
C3_FailedVerificationLeavesLiveState ==
    [][(spc \in {"check", "probe", "download", "fetchsum", "compare", "extract"})
          => Live' = Live]_vars

\* C3 witness: the last call failed the checksum comparison, and a GetRecord
\* issued afterwards has decoded its record from the handle still installed.
C3_Witness ==
    /\ spc = "idle"
    /\ ret = "err_mismatch"
    /\ db # NoHandle
    /\ db \notin closed
    /\ \E l \in Lookups : lk[l].pc = "add" /\ lk[l].h = db

\* C4: the HTTP server is started only with a database handle installed:
\* whatever the startup refresh did, either the process aborted or a handle
\* is current when the server listens.
C4_ServesOnlyWithHandle ==
    [][(mpc = "setup" /\ mpc' = "serving") => db' # NoHandle]_vars

\* C5 as claimed: while the archive is downloaded and its checksum verified
\* the call does not hold the exclusive lock.
C5_DownloadWithoutExclusiveLock ==
    spc \in {"download", "fetchsum", "compare"} => ~mtx.w

\* C5 amended: SetupDatabase holds the exclusive lock from its first statement
\* to its return, the download and the verification included: while it runs no
\* GetRecord holds the shared lock or is past its RLock.
C5_LockHeldForWholeCall ==
    spc \notin {"idle", "lock"} =>
        (mtx.w /\ mtx.r = {} /\ \A l \in Lookups : lk[l].pc = "idle")

\* C5 witness: a refresh with a database installed is in its download step,
\* holding the exclusive lock.
C5_Witness ==
    spc = "download" /\ mtx.w /\ db # NoHandle /\ db \notin closed

\* C6: the step that installs a new handle empties the cache, and a GetRecord
\* answered from the cache is answered with a record decoded from the current
\* handle: an address cached before the install goes through the decoder of
\* the new handle on its next lookup.
C6_InstallPurgesCache ==
    [][/\ (db' # db /\ db' # NoHandle) => cache' = EmptyCache
       /\ \A l \in Lookups :
            (lk[l].pc = "check" /\ lk'[l].pc = "idle" /\ last'.kind = "hit")
                => last'.h = db]_vars

\* C6 witness: an install has just dropped cached addresses; the new handle is
\* current and open and the cache holds nothing for them.
C6_Witness ==
    /\ spc = "idle"
    /\ ret = "nil_installed"
    /\ purged # {}
    /\ db # NoHandle
    /\ db \notin closed
    /\ \A a \in purged : cache[a] = Absent

\* C7: a GetRecord that decoded a record leaves it in the cache under its
\* address; an entry leaves the cache only by an eviction (another Add) or by
\* an install; and a GetRecord that finds an entry for its address returns
\* that record at once, without the decoder and without changing the cache.
C7_CacheHitSkipsDecoder ==
    [][\A l \in Lookups :
        /\ (lk[l].pc = "add" /\ lk'[l].pc = "idle")
              => (cache'[lk[l].ip] = lk[l].h /\ last' = [kind |-> "decoded", h |-> lk[l].h])
        /\ (lk[l].pc = "check" /\ lk'[l].pc # "check" /\ db # NoHandle
                /\ cache[lk[l].ip] # Absent)
              => (/\ lk'[l].pc = "idle"
                  /\ last' = [kind |-> "hit", h |-> cache[lk[l].ip]]
                  /\ cache' = cache)
        /\ (cache[lk[l].ip] # Absent /\ cache'[lk[l].ip] = Absent)
              => (db' # db \/ \E m \in Lookups : lk[m].pc = "add" /\ lk'[m].pc = "idle")]_vars

\* C7 witness: a GetRecord has just been answered from the cache with a record
\* of the current, open handle.
C7_Witness ==
    last.kind = "hit" /\ last.h = db /\ db \notin closed

\* C8: no GetRecord that overlaps a SetupDatabase call which goes on to install
\* a new handle fails with the error of a closed reader.
C8_ConcurrentLookupsNeverSeeClosedHandle ==
    (spc = "idle" /\ ret = "nil_installed") => ~overlapErr

\* C9: with both files present and a handle installed, the probe step either
\* fails, or finds the remote checksum different from the recorded one and goes
\* on to download, or returns nil at the no-update site having issued exactly
\* one request, with the files, the handle and the cache untouched.
C9_NoChangeProbeOnly ==
    [][(spc = "probe" /\ spc' # "probe" /\ db # NoHandle) =>
          \/ (spc' = "idle" /\ ret' = "err_io")
          \/ (spc' = "download" /\ lastSum' # lastSum)
          \/ /\ spc' = "idle"
             /\ ret' = "nil_nochange"
             /\ netReqs' = 1
             /\ fs' = fs
             /\ Live' = Live]_vars

\* C9 witness: a call has returned at the no-update site after one request.
C9_Witness ==
    /\ spc = "idle"
    /\ ret = "nil_nochange"
    /\ netReqs = 1
    /\ db # NoHandle
    /\ db \notin closed
    /\ ~fileExists(DatabaseArchivePath)

\* C10: through SetupDatabase calls made in succession that each find no
\* update the cache stays what it was before the first of them; and a call that
\* ends without error and without a download while a handle is installed
\* returned at the no-update site and did not touch the cache.
C10_NoChangeTwiceKeepsCache ==
    /\ [](run.n >= 1 => (cache = run.cache /\ ret = "nil_nochange"))
    /\ [][(spc # "idle" /\ spc' = "idle" /\ ret' \in NilReturns /\ ~shouldDownload
              /\ db # NoHandle)
            => (ret' = "nil_nochange" /\ cache' = cache)]_vars

\* C10 witness: two calls in succession returned at the no-update site, with
\* entries in the cache.
C10_Witness ==
    run.n = 2 /\ spc = "idle" /\ cache # EmptyCache

\* C11: a scheduled SetupDatabase call that returned an error leaves the
\* service alive (no log.Fatalf), the updater goroutine still in its loop, and
\* the database installed before it still current and open, so that lookups
\* keep being answered from it.
C11_ScheduledFailureKeepsServing ==
    (Running /\ caller = "updater" /\ spc = "idle" /\ ret \notin NilReturns /\ opened > 0)
        => (/\ mpc # "fatal"
            /\ upc \in {"setup", "select"}
            /\ db # NoHandle
            /\ db \notin closed)

\* C12: once updateTicker.Stop() has been called the updater goroutine starts
\* no SetupDatabase call, whether or not a tick was already in the channel.
C12_NoRefreshStartsAfterStop ==
    [][tickerStopped => ~(upc = "select" /\ upc' = "setup")]_vars

\* C13: once main has received the signal (or the done value) the shutdown
\* sequence runs to its end: the ticker is stopped, the HTTP server shut down,
\* the deferred Close done and the process gone, also when a SetupDatabase
\* call sits in a download that never returns.
C13_ShutdownCompletes ==
    (mpc = "stopping") ~> (mpc = "exited")

\* C14: a GetRecord that finds no handle installed returns ErrorDatabaseNotOpen
\* at once, the cache and the decoder untouched; and a GetRecord returns a
\* record or a decode error only with a handle installed.
C14_NotOpenWithoutHandle ==
    [][\A l \in Lookups :
        /\ (lk[l].pc = "check" /\ lk'[l].pc # "check" /\ db = NoHandle)
              => (/\ lk'[l].pc = "idle"
                  /\ last' = [kind |-> "notopen", h |-> NoHandle]
                  /\ cache' = cache)
        /\ (lk[l].pc # "idle" /\ lk'[l].pc = "idle"
                /\ last'.kind \in {"hit", "decoded", "decerr", "closederr"})
              => db # NoHandle]_vars

\* C14 witness: with no handle installed but entries still in the cache (Close
\* was called), a GetRecord has just returned ErrorDatabaseNotOpen.
C14_Witness ==
    last.kind = "notopen" /\ db = NoHandle /\ cache # EmptyCache

\* C15: whenever no SetupDatabase call is in progress and both live files are
\* there, the sidecar holds the lowercase hex digest of the archive the data
\* file was extracted from.
C15_SidecarMatchesDataFile ==
    (spc = "idle" /\ fileExists(DatabasePath) /\ fileExists(LastDownloadedChecksumPath))
        => fs[LastDownloadedChecksumPath].sum
              = HexDigest([ver |-> fs[DatabasePath].ver, good |-> TRUE, entry |-> TRUE])

\* C16: whenever no SetupDatabase call is in progress, the data directory holds
\* none of a refresh's temporary files: no downloaded archive, no new data
\* file, no new sidecar.
C16_NoTemporaryFilesAfterReturn ==
    spc = "idle" =>
        (/\ ~fileExists(DatabaseArchivePath)
         /\ ~fileExists(NewDatabasePath)
         /\ ~fileExists(NewChecksumPath))

\* C17: when the data file or the sidecar is missing, SetupDatabase goes from
\* the file check straight to the archive download: no request was issued
\* before it and the checksum is neither read nor compared first, with or
\* without a handle installed.
C17_MissingFilesDownloadUnconditionally ==
    [][(spc = "check" /\ spc' # "check"
            /\ (~fs[DatabasePath].present \/ ~fs[LastDownloadedChecksumPath].present))
          => (/\ spc' = "download"
              /\ shouldDownload'
              /\ netReqs' = 0
              /\ lastSum' = EmptySum
              /\ fs' = fs)]_vars

\* C17 witness: with a handle installed and open and a live file missing, the
\* call stands at the archive download having issued no request.
C17_Witness ==
    /\ spc = "download"
    /\ netReqs = 0
    /\ (~fs[DatabasePath].present \/ ~fs[LastDownloadedChecksumPath].present)
    /\ db # NoHandle
    /\ db \notin closed

\* C18: the handler reaches the database lookup only for a POST request whose
\* body decodes and whose ip parses; and whenever it writes a response, the
\* code is 200 exactly when the lookup has just succeeded, the status is "ok"
\* exactly when the code is 200, and it is "error" otherwise.
C18_HandlerValidatesAndReports ==
    [][\A l \in Handlers :
        /\ (lk[l].pc = "idle" /\ lk'[l].pc # "idle")
              => (/\ http'[l].req.method = "POST"
                  /\ http'[l].req.json
                  /\ http'[l].req.ip \in Addrs
                  /\ lk'[l].ip = http'[l].req.ip)
        /\ (http'[l] # http[l] /\ http'[l].pc = "idle")
              => (/\ (http'[l].resp.code = 200)
                        <=> (/\ lk[l].pc # "idle"
                             /\ lk'[l].pc = "idle"
                             /\ last'.kind \in {"hit", "decoded"})
                  /\ (http'[l].resp.status = StatusOK) <=> (http'[l].resp.code = 200)
                  /\ (http'[l].resp.status = StatusError) <=> (http'[l].resp.code # 200))]_vars

\* C18 witness: a request has been answered 200 "ok" after its lookup succeeded.
C18_Witness ==
    \E l \in Handlers :
        /\ http[l].pc = "idle"
        /\ http[l].resp = [code |-> 200, status |-> StatusOK]
        /\ last.kind \in {"hit", "decoded"}

\* C19: a SetupDatabase call that ends at the archive download (the transfer
\* failed) returns an error, and a call returns nil only with a handle
\* installed and open on return.
C19_FailuresReturnErrors ==
    [][(spc # "idle" /\ spc' = "idle")
          => (/\ spc = "download" => ret' \notin NilReturns
              /\ ret' \in NilReturns => (db' # NoHandle /\ db' \notin closed'))]_vars

\* C20: whenever a handle is installed and no SetupDatabase call holds the
\* exclusive lock (so in every state a GetRecord can look at), every cache
\* entry was decoded from the installed handle, hence from its data version.
C20_CacheEntriesOfCurrentHandle ==
    (db # NoHandle /\ ~mtx.w) =>
        \A a \in Addrs :
            cache[a] # Absent => (cache[a] = db /\ hver[cache[a]] = hver[db])

\* C20 witness: a second handle is installed, a lookup holding the shared lock
\* is looking at the cache, and the cache holds an entry decoded after the
\* install.
C20_Witness ==
    /\ db = 2
    /\ db \notin closed
    /\ purged = {}
    /\ \E a \in Addrs : cache[a] = db
    /\ \E l \in Lookups : lk[l].pc = "check"

\* C21: a GetRecord call whose decode fails returns the error and changes
\* nothing else: the cache, the installed handle and the set of closed handles
\* are as before and the other callers' lookups are where they were; a call
\* whose decode succeeds (whatever the record holds) returns with its record
\* in the cache under the address asked, the handle untouched.
C21_DecodeErrorAffectsOnlyCaller ==
    [][\A l \in Lookups :
          /\ (lk[l].pc = "decode" /\ lk'[l].pc = "idle")
                => /\ last'.kind \in {"decerr", "closederr"}
                   /\ cache' = cache
                   /\ db' = db
                   /\ closed' = closed
                   /\ \A m \in Lookups \ {l} : lk'[m] = lk[m]
          /\ (lk[l].pc = "add" /\ lk'[l].pc = "idle")
                => /\ last'.kind = "decoded"
                   /\ CacheGet(cache', lk[l].ip) = lk[l].h
                   /\ db' = db
                   /\ closed' = closed]_vars

\* C21 witness: a decode has just failed on an open handle while the cache
\* holds a record and the other caller's lookup is about to add its own.
C21_Witness ==
    /\ last.kind = "decerr"
    /\ db # NoHandle
    /\ db \notin closed
    /\ cache # EmptyCache
    /\ \E l \in Lookups : lk[l].pc = "add"

\* C22: the live data file changes only in the rename of line 229, and that
\* rename is performed only in a call that has compared the checksums and found
\* them equal: the digest computed over the archive this call downloaded equals
\* the expected remote checksum, and the file renamed over the live one is the
\* payload extracted from that archive. From the comparison on, the call goes
\* no further unless the two were equal.
C22_ReplaceOnlyAfterChecksumMatch ==
    /\ [](spc \in {"extract", "savesum", "rename1", "rename2"}
            => (digest = lastSum /\ digest = HexDigest(body)))
    /\ [][((fs'[DatabasePath] # fs[DatabasePath])
              => (spc = "rename1" /\ spc' = "rename2"))
           /\ ((spc = "rename1" /\ spc' = "rename2")
                 => (/\ digest = lastSum
                     /\ digest = HexDigest(body)
                     /\ body.good
                     /\ body.entry
                     /\ fs[NewDatabasePath] = DataFile(body.ver)
                     /\ fs'[DatabasePath] = DataFile(body.ver)))]_vars

\* C22 witness: with version 1 installed and open, a refresh has just renamed
\* the verified version 2 payload over the live data file.
C22_Witness ==
    /\ spc = "rename2"
    /\ db # NoHandle
    /\ hver[db] = 1
    /\ body.ver = 2
    /\ digest = lastSum
    /\ fs[DatabasePath] = DataFile(2)

\* C23: once a value has been sent on the done channel, the updater goroutine
\* eventually terminates: it is no longer in its loop, neither waiting in the
\* select nor inside the refresh the select started (the end of the process
\* is counted as the end of the goroutine).
C23_SchedulerTerminates ==
    (done > 0) ~> (upc \notin {"select", "setup"} \/ mpc = "exited")

\* C24: at every moment at most one of the handles maxminddb.Open has
\* returned is open, and every handle other than the installed one (every
\* handle a later install has superseded) has been closed.
C24_AtMostOneOpenHandle ==
    /\ Cardinality({h \in 1..opened : h \notin closed}) <= 1
    /\ \A h \in 1..opened : h # db => h \in closed

\* C24 witness: a second install has succeeded; the superseded handle is
\* closed, the new one is installed and open, and a lookup is using it.
C24_Witness ==
    /\ opened = 2
    /\ db = 2
    /\ closed = {1}
    /\ ret = "nil_installed"
    /\ \E l \in Lookups : lk[l].pc = "decode"

\* C25: when a call reaches the checksum comparison, the verdict on the
\* archive it downloaded is the one the first-run path gives for the same
\* remote text: the expected checksum has been trimmed and lowercased
\* whichever path fetched it, so comparing it with the computed digest gives
\* what comparing the first-run normalisation of it gives.
C25_SameVerdictOnBothPaths ==
    spc = "compare"
        => (ChecksumMatches(digest, lastSum)
              <=> ChecksumMatches(digest, FirstRunNormalize(lastSum)))

====
